---- MODULE Spec2Model ----
(***************************************************************************)
(* The catalog workflow of local_library: the Book and Genre controllers   *)
(* and the home summary, over the document store.                          *)
(*                                                                         *)
(* Every request occupies a slot of req.  A handler is a chain of steps:   *)
(* the synchronous part run on arrival (normalisation, validation) and one *)
(* step per store call, taken when the store answers; the callback the     *)
(* answer triggers runs in the same step.  Steps of different requests     *)
(* interleave freely, as the callbacks of a Node process do.               *)
(*                                                                         *)
(* Text is a sequence of one-character strings.  Identifiers are numbers   *)
(* handed out by a counter and never reused.                               *)
(***************************************************************************)
EXTENDS Integers, Sequences, FiniteSets, TLC

\* ------------------------------------------------------------------ bounds
MaxReq == 2        \* requests in flight at once
MaxGenres == 2     \* Genre identifiers the store hands out
MaxBooks == 1      \* Book identifiers the store hands out
MaxInstances == 1  \* BookInstance identifiers the store hands out
MaxLen == 1        \* length of a submitted text field
MaxEcho == 5       \* longest stored name a client submits back verbatim

VARIABLES genres, books, instances, authors, nextGenre, nextBook, nextInstance, req

vars == <<genres, books, instances, authors, nextGenre, nextBook, nextInstance, req>>
store == <<genres, books, instances, authors, nextGenre, nextBook, nextInstance>>

Slots == 1..MaxReq
GenreIds == 1..MaxGenres
BookIds == 1..MaxBooks
InstanceIds == 1..MaxInstances

\* -------------------------------------------------------------------- text
Alphabet == {" ", "a", "&"}

RECURSIVE Strings(_)
Strings(n) == IF n = 0 THEN {<<>>}
              ELSE LET S == Strings(n - 1)
                   IN  S \cup {Append(s, c) : s \in {x \in S : Len(x) = n - 1}, c \in Alphabet}

RECURSIVE LTrim(_)
LTrim(s) == IF s = <<>> THEN s
            ELSE IF Head(s) = " " THEN LTrim(Tail(s)) ELSE s

RECURSIVE RTrim(_)
RTrim(s) == IF s = <<>> THEN s
            ELSE IF s[Len(s)] = " " THEN RTrim(SubSeq(s, 1, Len(s) - 1)) ELSE s

\* .trim()
Trim(s) == RTrim(LTrim(s))

\* The replacement of one character (the double quote, the backslash and the
\* backquote are replaced likewise and are not in the alphabet).
EscapeChar(c) == IF c = "&" THEN <<"&", "a", "m", "p", ";">>
                 ELSE IF c = "<" THEN <<"&", "l", "t", ";">>
                 ELSE IF c = ">" THEN <<"&", "g", "t", ";">>
                 ELSE IF c = "'" THEN <<"&", "#", "x", "2", "7", ";">>
                 ELSE IF c = "/" THEN <<"&", "#", "x", "2", "F", ";">>
                 ELSE <<c>>

RECURSIVE Escape(_)
\* .escape()
Escape(s) == IF s = <<>> THEN <<>> ELSE EscapeChar(Head(s)) \o Escape(Tail(s))

\* body(f, msg).trim().isLength({ min: 1 }).escape(): the value left in req.body
Sanitize(s) == Escape(Trim(s))

\* body(f, msg).trim().isLength({ min: 1 }): the length test sees the trimmed value
IsLengthMin1(s) == Len(Trim(s)) >= 1

\* --------------------------------------------------------------- responses
NoData == [none |-> TRUE]

GenreUrl(id) == [path |-> "/catalog/genre/", id |-> id]
BookUrl(id) == [path |-> "/catalog/book/", id |-> id]
GenreListUrl == [path |-> "/catalog/genres", id |-> 0]

Render(view, data) == [t |-> "render", view |-> view, url |-> GenreListUrl, status |-> 200, data |-> data]
Redirect(url) == [t |-> "redirect", view |-> "", url |-> url, status |-> 302, data |-> NoData]
\* next(err): the hand-off to the generic error handler
NextErr(status) == [t |-> "next", view |-> "", url |-> GenreListUrl, status |-> status, data |-> NoData]

\* ---------------------------------------------------------------- requests
NoGenre == [found |-> FALSE, name |-> <<>>]
FoundGenre(n) == [found |-> TRUE, name |-> n]

\* req.body.genre as the body parser leaves it: absent, one value, or a list
Absent == [tag |-> "absent", v |-> <<>>]
Scalar(g) == [tag |-> "scalar", v |-> <<g>>]
Array(s) == [tag |-> "array", v |-> s]

\* The submission as the client sent it
NoIn == [name |-> <<>>, title |-> <<>>, author |-> <<>>, summary |-> <<>>, isbn |-> <<>>,
         genre |-> Absent, genreid |-> 0]

\* req.body as the handler reads it, after the middleware before it has run
NoBody == [name |-> <<>>, title |-> <<>>, author |-> <<>>, summary |-> <<>>,
           isbn |-> <<>>, genre |-> <<>>, genreid |-> 0]

NoRes == [genre |-> NoGenre, books |-> {}, authors |-> {}, genres |-> {}, counts |-> <<>>]

Idle == [kind |-> "", id |-> 0, in |-> NoIn, body |-> NoBody, errors |-> <<>>, pc |-> "idle",
         pending |-> {}, res |-> NoRes, resp |-> <<>>]

Free(r) == req[r].pc \in {"idle", "done"}

\* A request arrives in a free slot and waits for the store.
Arrive(r, kind, id, in, body, errors, pc, pending) ==
    req' = [req EXCEPT ![r] = [kind |-> kind, id |-> id, in |-> in, body |-> body,
                               errors |-> errors, pc |-> pc, pending |-> pending,
                               res |-> NoRes, resp |-> <<>>]]

\* A request arrives in a free slot and is answered without a store call.
Answer(r, kind, id, in, body, errors, resps) ==
    req' = [req EXCEPT ![r] = [kind |-> kind, id |-> id, in |-> in, body |-> body,
                               errors |-> errors, pc |-> "done", pending |-> {},
                               res |-> NoRes, resp |-> resps]]

\* The handler of slot r ends having issued the responses resps, in order.
Finish(r, res, resps) ==
    req' = [req EXCEPT ![r].pc = "done", ![r].pending = {}, ![r].res = res, ![r].resp = resps]

\* ------------------------------------------------------------------- store
\* Book.find({ genre: id })
BooksWithGenre(id) == {b \in DOMAIN books : \E i \in 1..Len(books[b].genre) : books[b].genre[i] = id}

\* Genre.findById(id)
GenreFindById(id) == IF id \in DOMAIN genres THEN FoundGenre(genres[id]) ELSE NoGenre

\* The pre-check finds nothing, whatever is stored.
GenreFindOne_none(n) == {}

\* Genre.findOne({ name: n }): the identifiers it may answer with
GenreFindOne(n) == {g \in DOMAIN genres : genres[g] = n}

Put(f, k, v) == [x \in DOMAIN f \cup {k} |-> IF x = k THEN v ELSE f[x]]
Drop(f, k) == [x \in DOMAIN f \ {k} |-> f[x]]

\* What a client types as a Genre name: a short text, or a stored name read back.
NameInputs == Strings(MaxLen) \cup {genres[g] : g \in {x \in DOMAIN genres : Len(genres[x]) <= MaxEcho}}

Init ==
    /\ genres = <<>>
    /\ books = <<>>
    /\ instances = <<>>
    /\ authors = {<<"a">>}
    /\ nextGenre = 1
    /\ nextBook = 1
    /\ nextInstance = 1
    /\ req = [r \in Slots |-> Idle]

\* ------------------------------------------------------------ genre_detail
genre_detail_start(r) ==
    /\ Free(r)
    /\ \E id \in GenreIds :
         Arrive(r, "genre_detail", id, NoIn, NoBody, <<>>, "query", {"genre", "genre_books"})
    /\ UNCHANGED store

genre_detail_callback(q, res) ==
    IF ~res.genre.found
    THEN <<NextErr(404)>>
    ELSE <<Render("genre_detail", [genre |-> res.genre, genre_books |-> res.books])>>

genre_detail_query(r) ==
    /\ req[r].kind = "genre_detail" /\ req[r].pc = "query"
    /\ \E task \in req[r].pending, err \in BOOLEAN :
         LET res == IF task = "genre"
                    THEN [req[r].res EXCEPT !.genre = GenreFindById(req[r].id)]
                    ELSE [req[r].res EXCEPT !.books = BooksWithGenre(req[r].id)]
         IN  IF err THEN Finish(r, req[r].res, <<NextErr(500)>>)
             ELSE IF req[r].pending = {task}
             THEN Finish(r, res, genre_detail_callback(req[r], res))
             ELSE req' = [req EXCEPT ![r].pending = @ \ {task}, ![r].res = res]
    /\ UNCHANGED store

\* ------------------------------------------------------------- Genre forms
Msgs(ok, msg) == IF ok THEN <<>> ELSE <<msg>>

\* body('name', 'Genre name required').trim().isLength({ min: 1 }).escape()
genre_errors(in) == Msgs(IsLengthMin1(in.name), "Genre name required")

\* The form rendered again with the sanitized name and the error list
GenreForm(title, body, errors) ==
    Render("genre_form", [title |-> title, genre |-> body.name, errors |-> errors])

\* ------------------------------------------------------- genre_create_post
genre_create_post_start(r) ==
    /\ Free(r)
    /\ \E raw \in NameInputs :
         LET in == [NoIn EXCEPT !.name = raw]
             body == [NoBody EXCEPT !.name = Sanitize(raw)]
             errors == genre_errors(in)
         IN  IF errors # <<>>
             THEN Answer(r, "genre_create_post", 0, in, body, errors,
                         <<GenreForm("Create Genre", body, errors)>>)
             ELSE Arrive(r, "genre_create_post", 0, in, body, errors, "findOne", {})
    /\ UNCHANGED store

genre_create_post_findOne(r) ==
    /\ req[r].kind = "genre_create_post" /\ req[r].pc = "findOne"
    /\ \E err \in BOOLEAN :
         IF err THEN Finish(r, req[r].res, <<NextErr(500)>>)
         ELSE IF GenreFindOne(req[r].body.name) # {}
         THEN \E g \in GenreFindOne(req[r].body.name) :
                Finish(r, [req[r].res EXCEPT !.genre = FoundGenre(genres[g])],
                       <<Redirect(GenreUrl(g))>>)
         ELSE req' = [req EXCEPT ![r].pc = "save"]
    /\ UNCHANGED store

genre_create_post_save(r) ==
    /\ req[r].kind = "genre_create_post" /\ req[r].pc = "save"
    /\ nextGenre <= MaxGenres
    /\ \E err \in BOOLEAN :
         IF err
         THEN /\ Finish(r, req[r].res, <<NextErr(500)>>)
              /\ UNCHANGED store
         ELSE /\ genres' = Put(genres, nextGenre, req[r].body.name)
              /\ nextGenre' = nextGenre + 1
              /\ Finish(r, req[r].res, <<Redirect(GenreUrl(nextGenre))>>)
              /\ UNCHANGED <<books, instances, authors, nextBook, nextInstance>>

\* -------------------------------------------------------- genre_delete_get
genre_delete_get_start(r) ==
    /\ Free(r)
    /\ \E id \in GenreIds :
         Arrive(r, "genre_delete_get", id, NoIn, NoBody, <<>>, "query", {"genre", "books"})
    /\ UNCHANGED store

\* The callback has no return after the redirect: the render follows it.
genre_delete_get_callback(q, res) ==
    LET page == Render("genre_delete", [genre |-> res.genre, books |-> res.books])
    IN  IF ~res.genre.found
        THEN <<Redirect(GenreListUrl), page>>
        ELSE <<page>>

genre_delete_get_query(r) ==
    /\ req[r].kind = "genre_delete_get" /\ req[r].pc = "query"
    /\ \E task \in req[r].pending, err \in BOOLEAN :
         LET res == IF task = "genre"
                    THEN [req[r].res EXCEPT !.genre = GenreFindById(req[r].id)]
                    ELSE [req[r].res EXCEPT !.books = BooksWithGenre(req[r].id)]
         IN  IF err THEN Finish(r, req[r].res, <<NextErr(500)>>)
             ELSE IF req[r].pending = {task}
             THEN Finish(r, res, genre_delete_get_callback(req[r], res))
             ELSE req' = [req EXCEPT ![r].pending = @ \ {task}, ![r].res = res]
    /\ UNCHANGED store

\* ------------------------------------------------------- genre_delete_post
genre_delete_post_start(r) ==
    /\ Free(r)
    /\ \E id \in GenreIds, genreid \in GenreIds :
         Arrive(r, "genre_delete_post", id, [NoIn EXCEPT !.genreid = genreid],
                [NoBody EXCEPT !.genreid = genreid], <<>>, "query", {"genre", "books"})
    /\ UNCHANGED store

\* Both lookups keyed by req.body.genreid, the key of the removal
genre_delete_post_lookup_by_body(q, task) ==
    IF task = "genre"
    THEN [q.res EXCEPT !.genre = GenreFindById(q.body.genreid)]
    ELSE [q.res EXCEPT !.books = BooksWithGenre(q.body.genreid)]

\* Genre.find and Book.find are keyed by req.params.id
genre_delete_post_lookup(q, task) ==
    IF task = "genre"
    THEN [q.res EXCEPT !.genre = GenreFindById(q.id)]
    ELSE [q.res EXCEPT !.books = BooksWithGenre(q.id)]

genre_delete_post_query(r) ==
    /\ req[r].kind = "genre_delete_post" /\ req[r].pc = "query"
    /\ \E task \in req[r].pending, err \in BOOLEAN :
         LET res == genre_delete_post_lookup(req[r], task)
         IN  IF err THEN Finish(r, req[r].res, <<NextErr(500)>>)
             ELSE IF req[r].pending # {task}
             THEN req' = [req EXCEPT ![r].pending = @ \ {task}, ![r].res = res]
             ELSE IF res.books # {}
             THEN Finish(r, res, <<Render("genre_delete",
                                          [genre |-> res.genre, books |-> res.books])>>)
             ELSE req' = [req EXCEPT ![r].pending = {}, ![r].res = res, ![r].pc = "remove"]
    /\ UNCHANGED store

\* Genre.findByIdAndRemove is keyed by req.body.genreid
genre_delete_post_target(q) == q.body.genreid

genre_delete_post_remove(r) ==
    /\ req[r].kind = "genre_delete_post" /\ req[r].pc = "remove"
    /\ \E err \in BOOLEAN :
         IF err
         THEN /\ Finish(r, req[r].res, <<NextErr(500)>>)
              /\ UNCHANGED store
         ELSE /\ genres' = Drop(genres, genre_delete_post_target(req[r]))
              /\ Finish(r, req[r].res, <<Redirect(GenreListUrl)>>)
              /\ UNCHANGED <<books, instances, authors, nextGenre, nextBook, nextInstance>>

\* ------------------------------------------------------- genre_update_post
genre_update_post_start(r) ==
    /\ Free(r)
    /\ \E id \in GenreIds, raw \in NameInputs :
         LET in == [NoIn EXCEPT !.name = raw]
             body == [NoBody EXCEPT !.name = Sanitize(raw)]
             errors == genre_errors(in)
         IN  IF errors # <<>>
             THEN Answer(r, "genre_update_post", id, in, body, errors,
                         <<GenreForm("Update Genre", body, errors)>>)
             ELSE Arrive(r, "genre_update_post", id, in, body, errors, "update", {})
    /\ UNCHANGED store

\* The update is lost: the stored Genre keeps its name.
GenreFindByIdAndUpdate_lost(id, name) == genres

\* Genre.findByIdAndUpdate(req.params.id, genre, {}): no upsert
GenreFindByIdAndUpdate(id, name) ==
    IF id \in DOMAIN genres THEN [genres EXCEPT ![id] = name] ELSE genres

genre_update_post_update(r) ==
    /\ req[r].kind = "genre_update_post" /\ req[r].pc = "update"
    /\ \E err \in BOOLEAN :
         IF err
         THEN /\ Finish(r, req[r].res, <<NextErr(500)>>)
              /\ UNCHANGED store
         ELSE /\ genres' = GenreFindByIdAndUpdate(req[r].id, req[r].body.name)
              /\ Finish(r, req[r].res, <<Redirect(GenreUrl(req[r].id))>>)
              /\ UNCHANGED <<books, instances, authors, nextGenre, nextBook, nextInstance>>

\* ------------------------------------------------------------- Book forms
\* A list of k..n
RECURSIVE Range(_, _)
Range(k, n) == IF k > n THEN <<>> ELSE <<k>> \o Range(k + 1, n)

\* req.body.genre as it arrives: absent (no box ticked), one value (one box), or a
\* list (several boxes)
GenreFieldInputs ==
    {Absent} \cup {Scalar(g) : g \in GenreIds}
             \cup {Array(Range(k, MaxGenres)) : k \in 1..(MaxGenres - 1)}

\* "Convert the genre to an array"
GenreToArray(f) ==
    IF f.tag # "array"
    THEN IF f.tag = "absent" THEN <<>> ELSE <<f.v[1]>>
    ELSE f.v

TitleInputs == Strings(MaxLen)
AuthorInputs == {<<" ">>} \cup authors
SummaryInputs == {<<>>, <<"a">>}
IsbnInputs == {<<>>, <<"a">>}

BookTexts ==
    [title : TitleInputs, author : AuthorInputs, summary : SummaryInputs, isbn : IsbnInputs]

\* The required fields of a submission that are empty after trimming
Blank(in) == {f \in {"title", "author", "summary", "isbn"} : Len(Trim(in[f])) = 0}

\* The submissions tried: complete ones, ones with a single required field left
\* blank, and ones with every required field left blank.
BookInputs ==
    {[NoIn EXCEPT !.title = t.title, !.author = t.author, !.summary = t.summary,
                  !.isbn = t.isbn, !.genre = g] : t \in {x \in BookTexts : Cardinality(Blank(x)) \in {0, 1, 4}},
                     g \in GenreFieldInputs}

\* The submissions that pass validation
CompleteBookInputs == {in \in BookInputs : Blank(in) = {}}

\* The Book document built from req.body after the validation chain has run.
BookBody(in) ==
    [NoBody EXCEPT !.title = Sanitize(in.title), !.author = Sanitize(in.author),
                   !.summary = Sanitize(in.summary), !.isbn = Sanitize(in.isbn),
                   !.genre = GenreToArray(in.genre)]

BookDoc(body) ==
    [title |-> body.title, author |-> body.author, summary |-> body.summary,
     isbn |-> body.isbn, genre |-> body.genre]

\* The chain without the isbn validator
book_create_errors_noisbn(in) ==
    Msgs(IsLengthMin1(in.title), "Title must not be empty.")
    \o Msgs(IsLengthMin1(in.author), "Author must not be empty.")
    \o Msgs(IsLengthMin1(in.summary), "Summary must not be empty")

\* The validation chain of book_create_post: one message per failing field, in order
book_create_errors(in) ==
    Msgs(IsLengthMin1(in.title), "Title must not be empty.")
    \o Msgs(IsLengthMin1(in.author), "Author must not be empty.")
    \o Msgs(IsLengthMin1(in.summary), "Summary must not be empty")
    \o Msgs(IsLengthMin1(in.isbn), "ISBN must not be empty")

\* The validation chain of book_update_post
book_update_errors(in) ==
    Msgs(IsLengthMin1(in.title), "Title must not be empty")
    \o Msgs(IsLengthMin1(in.author), "Author must not be empty")
    \o Msgs(IsLengthMin1(in.summary), "Summary must not be empty")
    \o Msgs(IsLengthMin1(in.isbn), "ISBN must not be empty")

\* The form rendered again: the reference lists, the genres of the submission marked
\* checked, the submitted (sanitized) Book and the error list.
BookForm(title, q, res) ==
    Render("book_form",
           [title |-> title, authors |-> res.authors, genres |-> res.genres,
            checked |-> {g \in res.genres : \E i \in 1..Len(q.body.genre) : q.body.genre[i] = g},
            book |-> BookDoc(q.body), errors |-> q.errors])

\* async.parallel({ authors, genres }) of the error branch
BookFormQuery(r, title) ==
    \E task \in req[r].pending, err \in BOOLEAN :
      LET res == IF task = "authors"
                 THEN [req[r].res EXCEPT !.authors = authors]
                 ELSE [req[r].res EXCEPT !.genres = DOMAIN genres]
      IN  IF err THEN Finish(r, req[r].res, <<NextErr(500)>>)
          ELSE IF req[r].pending = {task}
          THEN Finish(r, res, <<BookForm(title, req[r], res)>>)
          ELSE req' = [req EXCEPT ![r].pending = @ \ {task}, ![r].res = res]

\* -------------------------------------------------------- book_create_post
book_create_post_start(r, inputs) ==
    /\ Free(r)
    /\ \E in \in inputs :
         LET errors == book_create_errors(in)
         IN  IF errors # <<>>
             THEN Arrive(r, "book_create_post", 0, in, BookBody(in), errors, "form",
                         {"authors", "genres"})
             ELSE Arrive(r, "book_create_post", 0, in, BookBody(in), errors, "save", {})
    /\ UNCHANGED store

book_create_post_form(r) ==
    /\ req[r].kind = "book_create_post" /\ req[r].pc = "form"
    /\ BookFormQuery(r, "Create Book")
    /\ UNCHANGED store

book_create_post_save(r) ==
    /\ req[r].kind = "book_create_post" /\ req[r].pc = "save"
    /\ nextBook <= MaxBooks
    /\ \E err \in BOOLEAN :
         IF err
         THEN /\ Finish(r, req[r].res, <<NextErr(500)>>)
              /\ UNCHANGED store
         ELSE /\ books' = Put(books, nextBook, BookDoc(req[r].body))
              /\ nextBook' = nextBook + 1
              /\ Finish(r, req[r].res, <<Redirect(BookUrl(nextBook))>>)
              /\ UNCHANGED <<genres, instances, authors, nextGenre, nextInstance>>

\* -------------------------------------------------------- book_update_post
book_update_post_start(r, inputs) ==
    /\ Free(r)
    /\ \E id \in BookIds, in \in inputs :
         LET errors == book_update_errors(in)
         IN  IF errors # <<>>
             THEN Arrive(r, "book_update_post", id, in, BookBody(in), errors, "form",
                         {"authors", "genres"})
             ELSE Arrive(r, "book_update_post", id, in, BookBody(in), errors, "update", {})
    /\ UNCHANGED store

book_update_post_form(r) ==
    /\ req[r].kind = "book_update_post" /\ req[r].pc = "form"
    /\ BookFormQuery(r, "Update Book")
    /\ UNCHANGED store

\* Book.findByIdAndUpdate(req.params.id, book, {}): no upsert
BookFindByIdAndUpdate(id, doc) ==
    IF id \in DOMAIN books THEN [books EXCEPT ![id] = doc] ELSE books

\* (err, book) => res.redirect(book.url): book is the document found, null when the
\* identifier resolves to none, and then book.url throws before any response.
book_update_post_callback(q) ==
    IF q.id \in DOMAIN books THEN <<Redirect(BookUrl(q.id))>> ELSE <<>>

book_update_post_update(r) ==
    /\ req[r].kind = "book_update_post" /\ req[r].pc = "update"
    /\ \E err \in BOOLEAN :
         IF err
         THEN /\ Finish(r, req[r].res, <<NextErr(500)>>)
              /\ UNCHANGED store
         ELSE /\ books' = BookFindByIdAndUpdate(req[r].id, BookDoc(req[r].body))
              /\ Finish(r, req[r].res, book_update_post_callback(req[r]))
              /\ UNCHANGED <<genres, instances, authors, nextGenre, nextBook, nextInstance>>

\* ------------------------------------------------------------------- index
IndexTasks == {"book_count", "book_instance_count", "book_instance_available_count",
               "author_count", "genre_count"}

Statuses == {"Available", "Maintenance", "Loaned", "Reserved"}

\* Model.countDocuments(filter) of each task
CountDocuments(task) ==
    IF task = "book_count" THEN Cardinality(DOMAIN books)
    ELSE IF task = "book_instance_count" THEN Cardinality(DOMAIN instances)
    ELSE IF task = "book_instance_available_count"
    THEN Cardinality({i \in DOMAIN instances : instances[i] = "Available"})
    ELSE IF task = "author_count" THEN Cardinality(authors)
    ELSE Cardinality(DOMAIN genres)

index_start(r) ==
    /\ Free(r)
    /\ Arrive(r, "index", 0, NoIn, NoBody, <<>>, "query", IndexTasks)
    /\ UNCHANGED store

IndexPage(err, counts) ==
    Render("index", [title |-> "Local Library Home", error |-> err, data |-> counts])

index_count(r) ==
    /\ req[r].kind = "index" /\ req[r].pc = "query"
    /\ \E task \in req[r].pending, err \in BOOLEAN :
         LET res == [req[r].res EXCEPT !.counts = Put(@, task, CountDocuments(task))]
         IN  IF err THEN Finish(r, req[r].res, <<IndexPage(TRUE, req[r].res.counts)>>)
             ELSE IF req[r].pending = {task}
             THEN Finish(r, res, <<IndexPage(FALSE, res.counts)>>)
             ELSE req' = [req EXCEPT ![r].pending = @ \ {task}, ![r].res = res]
    /\ UNCHANGED store

\* ------------------------------------------- BookInstance writes (other requests)
bookinstance_create ==
    /\ nextInstance <= MaxInstances
    /\ \E status \in Statuses : instances' = Put(instances, nextInstance, status)
    /\ nextInstance' = nextInstance + 1
    /\ UNCHANGED <<genres, books, authors, nextGenre, nextBook, req>>

bookinstance_update ==
    /\ \E i \in DOMAIN instances :
         \E status \in Statuses \ {instances[i]} :
           instances' = [instances EXCEPT ![i] = status]
    /\ UNCHANGED <<genres, books, authors, nextGenre, nextBook, nextInstance, req>>

bookinstance_delete ==
    /\ \E i \in DOMAIN instances : instances' = Drop(instances, i)
    /\ UNCHANGED <<genres, books, authors, nextGenre, nextBook, nextInstance, req>>

\* ------------------------------------------------------------ specifications
\* The store as the Genre create flow leaves it after one Genre was added.
SeededInit ==
    /\ genres = (1 :> <<"a">>)
    /\ books = <<>>
    /\ instances = <<>>
    /\ authors = {<<"a">>}
    /\ nextGenre = 2
    /\ nextBook = 1
    /\ nextInstance = 1
    /\ req = [r \in Slots |-> Idle]

\* Slot 1 carries the Book requests of RefSpec, the other slots the Genre deletes
\* that run beside them.
BookSlots == {1}
GenreSlots == Slots \ BookSlots

book_post(r) ==
    \/ book_create_post_start(r, BookInputs)
    \/ book_create_post_form(r)
    \/ book_create_post_save(r)
    \/ book_update_post_start(r, BookInputs)
    \/ book_update_post_form(r)
    \/ book_update_post_update(r)

\* The Book forms on submissions that pass validation
book_write(r) ==
    \/ book_create_post_start(r, CompleteBookInputs)
    \/ book_create_post_save(r)
    \/ book_update_post_start(r, CompleteBookInputs)
    \/ book_update_post_update(r)

genre_delete_post(r) ==
    \/ genre_delete_post_start(r)
    \/ genre_delete_post_query(r)
    \/ genre_delete_post_remove(r)

genre_form_post(r) ==
    \/ genre_create_post_start(r)
    \/ genre_create_post_findOne(r)
    \/ genre_create_post_save(r)
    \/ genre_update_post_start(r)
    \/ genre_update_post_update(r)

genre_get(r) ==
    \/ genre_detail_start(r)
    \/ genre_detail_query(r)
    \/ genre_delete_get_start(r)
    \/ genre_delete_get_query(r)

home(r) ==
    \/ index_start(r)
    \/ index_count(r)

bookinstance_write ==
    \/ bookinstance_create
    \/ bookinstance_update
    \/ bookinstance_delete

\* The Genre controller alone.
GenreNext == \E r \in Slots : genre_get(r) \/ genre_form_post(r) \/ genre_delete_post(r)

\* Book writes beside Genre deletes.
RefNext ==
    \/ \E r \in BookSlots : book_write(r)
    \/ \E r \in GenreSlots : genre_delete_post(r)

\* The create and update forms of Book and Genre, one request at a time.
FormNext == \E r \in BookSlots : book_post(r) \/ genre_form_post(r)

\* The home summary beside BookInstance writes.
HomeNext ==
    \/ \E r \in Slots : home(r)
    \/ bookinstance_write

Next ==
    \/ \E r \in Slots : genre_get(r) \/ genre_form_post(r) \/ genre_delete_post(r)
                          \/ book_post(r) \/ home(r)
    \/ bookinstance_write

Spec == Init /\ [][Next]_vars
GenreSpec == Init /\ [][GenreNext]_vars
RefSpec == SeededInit /\ [][RefNext]_vars
FormSpec == Init /\ [][FormNext]_vars
HomeSpec == Init /\ [][HomeNext]_vars

\* ------------------------------------------------------------------ claims
\* A store call of the request failed and the error went to the error handler.
Failed(q) == q.resp = <<NextErr(500)>>

\* Slot r takes a step.
Stepped(r) == req'[r] # req[r]

Has(seq, x) == \E i \in 1..Len(seq) : seq[i] = x

\* ---- C1
C1Step(r) ==
    (req[r].kind = "genre_delete_post" /\ Stepped(r)) =>
        /\ ("books" \in req[r].pending /\ "books" \notin req'[r].pending /\ ~Failed(req'[r]))
              => req'[r].res.books = BooksWithGenre(req[r].id)
        /\ (req[r].res.books # {} \/ req'[r].res.books # {}) =>
              /\ store' = store
              /\ req'[r].pc # "remove"
              /\ (req'[r].pc = "done" /\ ~Failed(req'[r])) =>
                    req'[r].resp = <<Render("genre_delete",
                                            [genre |-> req'[r].res.genre,
                                             books |-> req'[r].res.books])>>

\* C1: a Genre delete POST whose reference lookup for the path identifier finds at
\* least one Book writes nothing to the store (Genres and Books are as before) and,
\* when the store answers both lookups, responds with the genre_delete view carrying
\* exactly the Books that referenced that identifier when the lookup ran.
C1_RefusedDeleteRemovesNothing == [][\A r \in Slots : C1Step(r)]_vars

C1_Witness ==
    \E r \in Slots :
        /\ req[r].kind = "genre_delete_post" /\ req[r].pc = "done"
        /\ req[r].id \in DOMAIN genres
        /\ Len(req[r].resp) = 1 /\ req[r].resp[1].view = "genre_delete"
        /\ req[r].resp[1].data.books # {}
        /\ req[r].resp[1].data.books = BooksWithGenre(req[r].id)

\* ---- C2
C2Step(r) ==
    /\ (/\ req[r].kind = "genre_delete_post" /\ req[r].pc = "remove"
        /\ req[r].res.genre.found /\ req[r].res.books = {}
        /\ Stepped(r) /\ ~Failed(req'[r]))
          => /\ req[r].id \notin DOMAIN genres'
             /\ req'[r].resp = <<Redirect(GenreListUrl)>>
    /\ \A q \in Slots :
         (/\ req[q].kind = "genre_delete_post" /\ req[q].pc = "done"
          /\ req[q].res.genre.found /\ req[q].resp = <<Redirect(GenreListUrl)>>
          /\ req[r].kind = "genre_detail" /\ req[r].id = req[q].id
          /\ Stepped(r) /\ ~Failed(req'[r]))
           => /\ ~req'[r].res.genre.found
              /\ req'[r].pc = "done" => req'[r].resp = <<NextErr(404)>>

\* C2: a Genre delete POST for a stored Genre that no Book references removes the
\* Genre of the path identifier and redirects to the genre listing; a Genre detail
\* request for that identifier answered after it finds no Genre and ends in the
\* 404 error, with no detail view.
C2_DeleteRemovesThenNotFound == [][\A r \in Slots : C2Step(r)]_vars

\* ---- C3
C3Lookup(r) ==
    /\ req[r].kind = "genre_create_post" /\ req[r].pc = "findOne"
    /\ Stepped(r) /\ ~Failed(req'[r])

C3Kept(r, name) ==
    /\ genres' = genres /\ nextGenre' = nextGenre
    /\ req'[r].pc = "done"
    /\ \E g \in DOMAIN genres :
         genres[g] = name /\ req'[r].resp = <<Redirect(GenreUrl(g))>>

\* C3 as stated: a Genre create POST with a valid name that exactly equals the name
\* of a stored Genre persists no Genre, redirects to the detail URL of the stored
\* Genre, and leaves exactly one Genre with that name.
C3_Original ==
    [][\A r \in Slots :
         (C3Lookup(r) /\ \E g \in DOMAIN genres : genres[g] = req[r].in.name)
           => /\ C3Kept(r, req[r].in.name)
              /\ Cardinality({g \in DOMAIN genres' : genres'[g] = req[r].in.name}) = 1]_vars

\* C3 amended: a Genre create POST with a valid name whose sanitized form (trimmed,
\* then escaped) equals the name of a stored Genre when the lookup is answered
\* persists no Genre (the collection and the identifier counter are unchanged) and
\* redirects to the detail URL of a stored Genre with that name.
C3_CreateByKnownName ==
    [][\A r \in Slots :
         (C3Lookup(r) /\ \E g \in DOMAIN genres : genres[g] = Sanitize(req[r].in.name))
           => C3Kept(r, Sanitize(req[r].in.name))]_vars

C3_Witness ==
    \E r \in Slots :
        /\ req[r].kind = "genre_create_post" /\ req[r].pc = "done"
        /\ req[r].res.genre.found
        /\ req[r].in.name # req[r].body.name
        /\ \E g \in DOMAIN genres :
             genres[g] = Sanitize(req[r].in.name) /\ req[r].resp = <<Redirect(GenreUrl(g))>>

\* ---- C4
FormKinds == {"book_create_post", "book_update_post", "genre_create_post", "genre_update_post"}
BookKinds == {"book_create_post", "book_update_post"}
TextFields == {"title", "author", "summary", "isbn"}

Required(kind) == IF kind \in BookKinds THEN TextFields ELSE {"name"}

\* The required fields of the submission that are empty after trimming
Empty(q) == {f \in Required(q.kind) : Len(Trim(q.in[f])) = 0}

Message(kind, f) ==
    IF f = "name" THEN "Genre name required"
    ELSE IF f = "summary" THEN "Summary must not be empty"
    ELSE IF f = "isbn" THEN "ISBN must not be empty"
    ELSE IF kind = "book_create_post"
    THEN (IF f = "title" THEN "Title must not be empty." ELSE "Author must not be empty.")
    ELSE (IF f = "title" THEN "Title must not be empty" ELSE "Author must not be empty")

\* The form of the request's own workflow, with an error for every empty field
C4Form(q) ==
    /\ Len(q.resp) = 1
    /\ q.resp[1].t = "render"
    /\ q.resp[1].view = (IF q.kind \in BookKinds THEN "book_form" ELSE "genre_form")
    /\ \A f \in Empty(q) : Has(q.resp[1].data.errors, Message(q.kind, f))

\* The values the form shows, field by field
C4Shown(q, f) == IF q.kind \in BookKinds THEN q.resp[1].data.book[f] ELSE q.resp[1].data.genre

C4Rejected(r) == req'[r].kind \in FormKinds /\ Stepped(r) /\ Empty(req'[r]) # {}

\* C4 as stated: a create or update POST with a required field empty after trimming
\* leaves the store unchanged and responds with its form, re-rendered with the
\* submitted values and an error list that has the message of that field.
C4_Original ==
    [][\A r \in Slots :
         C4Rejected(r) =>
           /\ store' = store
           /\ req'[r].pc = "done" =>
                /\ C4Form(req'[r])
                /\ \A f \in Required(req'[r].kind) : C4Shown(req'[r], f) = req'[r].in[f]]_vars

\* C4 amended: a create or update POST with a required field empty after trimming
\* leaves the store unchanged and, when the store answers the re-fetch of the
\* reference lists, responds with its form, re-rendered with the sanitized (trimmed,
\* then escaped) submitted values and an error list that has the message of every
\* such field.
C4_InvalidFormNotPersisted ==
    [][\A r \in Slots :
         C4Rejected(r) =>
           /\ store' = store
           /\ (req'[r].pc = "done" /\ ~Failed(req'[r])) =>
                /\ C4Form(req'[r])
                /\ \A f \in Required(req'[r].kind) :
                     C4Shown(req'[r], f) = Sanitize(req'[r].in[f])]_vars

C4_Witness ==
    \E r \in Slots :
        /\ req[r].kind = "book_update_post" /\ req[r].pc = "done"
        /\ req[r].id \in DOMAIN books
        /\ Empty(req[r]) = {"isbn"}
        /\ req[r].in.title # Sanitize(req[r].in.title)
        /\ C4Form(req[r])
        /\ req[r].resp[1].data.book.title = Sanitize(req[r].in.title)

\* ---- C5
C5Updated(r) ==
    /\ req[r].kind \in {"book_update_post", "genre_update_post"} /\ req[r].pc = "update"
    /\ Stepped(r) /\ ~Failed(req'[r])
    /\ req[r].id \in (IF req[r].kind = "book_update_post" THEN DOMAIN books ELSE DOMAIN genres)

\* The identifiers stay, none is allocated, and the redirect is the detail URL of the
\* request's identifier.
C5Kept(r) ==
    /\ DOMAIN books' = DOMAIN books /\ DOMAIN genres' = DOMAIN genres
    /\ nextBook' = nextBook /\ nextGenre' = nextGenre
    /\ req'[r].resp = <<IF req[r].kind = "book_update_post"
                        THEN Redirect(BookUrl(req[r].id))
                        ELSE Redirect(GenreUrl(req[r].id))>>

\* The entity under the request's identifier holds the fields v, the genre list as
\* normalised.
C5Holds(r, v) ==
    IF req[r].kind = "book_update_post"
    THEN books'[req[r].id] = [title |-> v.title, author |-> v.author, summary |-> v.summary,
                              isbn |-> v.isbn, genre |-> GenreToArray(req[r].in.genre)]
    ELSE genres'[req[r].id] = v.name

\* C5 as stated: a successful update POST on a stored identifier keeps the set of
\* identifiers, allocates none, leaves the entity under the request's identifier
\* holding the submitted field values, and redirects to that identifier's detail URL.
C5_Original ==
    [][\A r \in Slots : C5Updated(r) => C5Kept(r) /\ C5Holds(r, req[r].in)]_vars

\* C5 amended: a successful update POST on a stored identifier keeps the set of
\* identifiers, allocates none, leaves the entity under the request's identifier
\* holding the sanitized (trimmed, then escaped) submitted field values, and
\* redirects to that identifier's detail URL.
C5_UpdateKeepsIdentifier ==
    [][\A r \in Slots :
         C5Updated(r) =>
           /\ C5Kept(r)
           /\ C5Holds(r, [f \in TextFields \cup {"name"} |-> Sanitize(req[r].in[f])])]_vars

C5_Witness ==
    \E r \in Slots :
        /\ req[r].kind = "book_update_post" /\ req[r].pc = "done"
        /\ req[r].resp = <<Redirect(BookUrl(req[r].id))>>
        /\ req[r].id \in DOMAIN books
        /\ req[r].in.title # Sanitize(req[r].in.title)
        /\ books[req[r].id].title = Sanitize(req[r].in.title)
        /\ books[req[r].id].genre # <<>>

\* ---- C6
\* C6: every home summary rendered without error carries the five counts, and its
\* book_instance_available_count is at most its book_instance_count.
C6_AvailableAtMostTotal ==
    \A r \in Slots :
        (req[r].kind = "index" /\ req[r].pc = "done" /\ ~req[r].resp[1].data.error) =>
            /\ DOMAIN req[r].resp[1].data.data = IndexTasks
            /\ req[r].resp[1].data.data["book_instance_available_count"]
                 <= req[r].resp[1].data.data["book_instance_count"]

\* ---- C7
\* C7: every request that was handled has issued exactly one response.
C7_ExactlyOneResponse == \A r \in Slots : req[r].pc = "done" => Len(req[r].resp) = 1

\* ---- C8
\* C8: when a Genre delete POST that names the Genre of its path removes it, no stored
\* Book references that Genre.
C8_NoReferencedGenreRemoved ==
    [][\A r \in Slots :
         (/\ req[r].kind = "genre_delete_post" /\ req[r].pc = "remove"
          /\ req[r].body.genreid = req[r].id
          /\ req[r].id \in DOMAIN genres /\ req[r].id \notin DOMAIN genres')
           => BooksWithGenre(req[r].id) = {}]_vars

\* ---- C9
\* C9: no two stored Genres have the same name.
C9_UniqueGenreNames ==
    \A g \in DOMAIN genres : \A h \in DOMAIN genres : genres[g] = genres[h] => g = h

\* ---- C10
\* C10: the Genre a delete POST removes is the Genre of the path identifier, the one
\* whose referencing Books the request looked up.
C10_RemovesTheCheckedGenre ==
    [][\A r \in Slots :
         (req[r].kind = "genre_delete_post" /\ req[r].pc = "remove" /\ Stepped(r))
           => \A g \in DOMAIN genres \ DOMAIN genres' : g = req[r].id]_vars
====
